---- MODULE Spec2Model ----
(***************************************************************************)
(* A model of package logger (ex-rate/logger): the construction of a sink  *)
(* from a Config (New, setupFormatter, setupOutput), the Logger handles    *)
(* derived from it (WithService, WithGroup), the entry builders, the       *)
(* leveled log calls and SetLevel / GetLevel.                              *)
(*                                                                         *)
(* The package forwards every call to a logrus.Logger.  What logrus does   *)
(* with a call the package makes (level filtering, the text and JSON       *)
(* encodings, the fan-out to the writers, exit on Fatal, panic on Panic)   *)
(* is modelled at the line of the package that makes the call.             *)
(*                                                                         *)
(* Strings the package computes with are sequences of one-character        *)
(* strings; a string of several characters inside a rendered line is one   *)
(* opaque token (a key, a timestamp, a level name, a caller location).     *)
(* Standard output is a redirected stream (not a terminal), so the text    *)
(* formatter uses its key=value layout.  Writes to an open writer succeed. *)
(***************************************************************************)
EXTENDS Integers, Sequences, FiniteSets

(* ------------------------------------------------------------------ *)
(* Levels (logrus numbering: a larger number is a lower severity)      *)
(* ------------------------------------------------------------------ *)
PanicLevel == 0
FatalLevel == 1
ErrorLevel == 2
WarnLevel == 3
InfoLevel == 4
DebugLevel == 5
TraceLevel == 6

Levels == PanicLevel..TraceLevel

LevelName(l) ==
    CASE l = PanicLevel -> "panic"
      [] l = FatalLevel -> "fatal"
      [] l = ErrorLevel -> "error"
      [] l = WarnLevel -> "warning"
      [] l = InfoLevel -> "info"
      [] l = DebugLevel -> "debug"
      [] OTHER -> "trace"

(* ------------------------------------------------------------------ *)
(* Output types and configurations                                     *)
(* ------------------------------------------------------------------ *)
ConsoleOutput == "console"
FileOutput == "file"
BothOutput == "both"
InvalidOutput == "invalid"

OutputTypes == {ConsoleOutput, FileOutput, BothOutput, InvalidOutput}

\* File paths a configuration may carry: none, a path that can be opened or
\* created, and a path whose open fails (its directory does not exist).
NoPath == ""
GoodPath == "app.log"
BadPath == "/missing/app.log"
FilePaths == {NoPath, GoodPath, BadPath}
OpenablePaths == {GoodPath}

Formats == {"json", "text"}

Config == [Level : Levels, Output : OutputTypes, FilePath : FilePaths, Format : Formats]

NoConfig == [Level |-> InfoLevel, Output |-> "", FilePath |-> NoPath, Format |-> ""]

(* ------------------------------------------------------------------ *)
(* Bounds                                                              *)
(* ------------------------------------------------------------------ *)
MaxSinks == 2
MaxHandles == 3
MaxLines == 1
MaxMsgLen == 2

(* ------------------------------------------------------------------ *)
(* Strings                                                             *)
(* ------------------------------------------------------------------ *)
Quote == "\""
Backslash == "\\"
Dot == "."

RECURSIVE Flatten(_)
Flatten(ss) == IF ss = <<>> THEN <<>> ELSE Head(ss) \o Flatten(Tail(ss))

\* sub occurs in s as a contiguous run
Contains(s, sub) ==
    \E i \in 0..(Len(s) - Len(sub)) :
        \A j \in 1..Len(sub) : s[i + j] = sub[j]

\* all strings over alphabet of length at most n
RECURSIVE StringsUpTo(_, _)
StringsUpTo(alphabet, n) ==
    IF n = 0 THEN {<<>>}
    ELSE LET shorter == StringsUpTo(alphabet, n - 1)
         IN shorter \cup {Append(s, c) : s \in shorter, c \in alphabet}

(* ------------------------------------------------------------------ *)
(* Formatters                                                          *)
(* ------------------------------------------------------------------ *)
TextFormatterFull == [kind |-> "text", FullTimestamp |-> TRUE]
TextFormatterDefault == [kind |-> "text", FullTimestamp |-> FALSE]
JSONFormatter == [kind |-> "json", FullTimestamp |-> FALSE]

\* Characters the text formatter writes without quoting.
SafeChars == {"a", "b", "c", "g", "s", "u", "v", "."}

NeedsQuoting(text) == \E i \in 1..Len(text) : text[i] \notin SafeChars

\* Go's %q on the characters of the model.
GoQuoteChar(c) ==
    IF c = Quote THEN <<Backslash, Quote>>
    ELSE IF c = Backslash THEN <<Backslash, Backslash>>
    ELSE <<c>>

GoQuote(text) ==
    <<Quote>> \o Flatten([i \in 1..Len(text) |-> GoQuoteChar(text[i])]) \o <<Quote>>

TextValue(text) == IF NeedsQuoting(text) THEN GoQuote(text) ELSE text

\* encoding/json on a string, HTML escaping on (the JSONFormatter default).
JSONChar(c) ==
    IF c = Quote THEN <<Backslash, Quote>>
    ELSE IF c = Backslash THEN <<Backslash, Backslash>>
    ELSE IF c = "<" THEN <<Backslash, "u", "0", "0", "3", "c">>
    ELSE <<c>>

JSONString(text) ==
    <<Quote>> \o Flatten([i \in 1..Len(text) |-> JSONChar(text[i])]) \o <<Quote>>

TimeToken == "<RFC3339>"
FuncToken == "<func>"
FileToken == "<file:line>"

\* One entry as the text formatter writes it: time, level, msg, then the
\* data keys in sorted order.
TextLine(level, msg, service) ==
    <<"time=", Quote, TimeToken, Quote, " ", "level=", LevelName(level), " ", "msg=">>
    \o TextValue(msg)
    \o <<" ", "file=", Quote, FileToken, Quote, " ", "func=", FuncToken, " ", "service=">>
    \o TextValue(service)
    \o <<"\n">>

\* One entry as the JSON formatter writes it: an object, keys sorted.
JSONLine(level, msg, service) ==
    <<"{", "\"file\":", Quote, FileToken, Quote, ",", "\"func\":", Quote, FuncToken, Quote, ",",
      "\"level\":", Quote, LevelName(level), Quote, ",", "\"msg\":">>
    \o JSONString(msg)
    \o <<",", "\"service\":">>
    \o JSONString(service)
    \o <<",", "\"time\":", Quote, TimeToken, Quote, "}", "\n">>

Format(formatter, level, msg, service) ==
    IF formatter.kind = "json" THEN JSONLine(level, msg, service)
    ELSE TextLine(level, msg, service)

(* ------------------------------------------------------------------ *)
(* State                                                               *)
(* ------------------------------------------------------------------ *)
VARIABLES
    fs,        \* the files at the openable paths: [exists, data (lines)]
    fds,       \* the paths os.OpenFile has opened, in order
    stdout,    \* the lines written to standard output
    sinks,     \* the logrus loggers New has returned: [level, formatter, out]
    handles,   \* the Logger values: [logger (index in sinks), serviceName]
    chain,     \* per handle: how it was derived (the names given, in order)
    built,     \* per successful New: the configuration it was given
    lastSet,   \* per successful New: the level it or the latest SetLevel asked for
    proc,      \* "running", "exited" (os.Exit) or "crashed" (unrecovered panic)
    last       \* the last call: its operation, receiver, arguments, result

vars == <<fs, fds, stdout, sinks, handles, chain, built, lastSet, proc, last>>

NoHandle == 0
StdoutWriter == "os.Stdout"
StderrWriter == "os.Stderr"

NoEntry == [logger |-> 0, data |-> {}]

NoCall ==
    [op |-> "", recv |-> NoHandle, res |-> NoHandle, name |-> <<>>, level |-> InfoLevel,
     msg |-> <<>>, err |-> "", signal |-> "return", cfg |-> NoConfig, entry |-> NoEntry]

OldLine == <<"old", "\n">>

NoFile == [exists |-> FALSE, data |-> <<>>]
OldFile == [exists |-> TRUE, data |-> <<OldLine>>]

\* The process starts with no logger; the log file may exist already.
InitWith(files) ==
    /\ fs \in [OpenablePaths -> files]
    /\ fds = <<>>
    /\ stdout = <<>>
    /\ sinks = <<>>
    /\ handles = <<>>
    /\ chain = <<>>
    /\ built = <<>>
    /\ lastSet = <<>>
    /\ proc = "running"
    /\ last = NoCall

Init == InitWith({NoFile, OldFile})

InitNoFile == InitWith({NoFile})

(* ------------------------------------------------------------------ *)
(* New, setupFormatter, setupOutput                                    *)
(* ------------------------------------------------------------------ *)
\* logrus.New(): standard error, the default text formatter, level info.
LogrusNew == [level |-> InfoLevel, formatter |-> TextFormatterDefault, out |-> <<StderrWriter>>]

\* A variant of setupFormatter that lets the format field choose the
\* formatter of a file.
SetupFormatterByFormat(logger, config) ==
    IF config.Output \in {ConsoleOutput, BothOutput}
    THEN [logger EXCEPT !.formatter = TextFormatterFull]
    ELSE IF config.Output = FileOutput
    THEN [logger EXCEPT !.formatter = IF config.Format = "text" THEN TextFormatterFull
                                      ELSE JSONFormatter]
    ELSE logger

\* A variant of setupFormatter that lets the format field choose the
\* formatter of the console.
SetupFormatterConsoleJSON(logger, config) ==
    IF config.Output = ConsoleOutput
    THEN [logger EXCEPT !.formatter = IF config.Format = "json" THEN JSONFormatter
                                      ELSE TextFormatterFull]
    ELSE IF config.Output = BothOutput
    THEN [logger EXCEPT !.formatter = TextFormatterFull]
    ELSE IF config.Output = FileOutput
    THEN [logger EXCEPT !.formatter = JSONFormatter]
    ELSE logger

SetupFormatter(logger, config) ==
    IF config.Output \in {ConsoleOutput, BothOutput}
    THEN [logger EXCEPT !.formatter = TextFormatterFull]
    ELSE IF config.Output = FileOutput
    THEN [logger EXCEPT !.formatter = JSONFormatter]
    ELSE logger

\* A variant of the open that truncates (O_TRUNC in place of O_APPEND).
OpenFileTruncating(files, path) ==
    IF path \in OpenablePaths
    THEN [err |-> "", files |-> [files EXCEPT ![path] = [exists |-> TRUE, data |-> <<>>]]]
    ELSE [err |-> "open failed", files |-> files]

\* os.OpenFile(path, O_CREATE|O_WRONLY|O_APPEND, 0640)
OpenFile(files, path) ==
    IF path \in OpenablePaths
    THEN [err |-> "",
          files |-> [files EXCEPT ![path] = [exists |-> TRUE, data |-> files[path].data]]]
    ELSE [err |-> "open failed", files |-> files]

\* A variant of setupOutput that falls back to the console for an output it
\* does not know.
SetupOutputDefaultConsole(config, files, open) ==
    LET o == OpenFile(files, config.FilePath)
        fail(e) == [err |-> e, writers |-> <<>>, files |-> files, open |-> open]
    IN CASE config.Output = ConsoleOutput ->
              [err |-> "", writers |-> <<StdoutWriter>>, files |-> files, open |-> open]
         [] config.Output = FileOutput ->
              IF config.FilePath = NoPath
              THEN fail("file path is required for file output")
              ELSE IF o.err # ""
              THEN fail("failed to open log file")
              ELSE [err |-> "", writers |-> <<config.FilePath>>, files |-> o.files,
                    open |-> Append(open, config.FilePath)]
         [] config.Output = BothOutput ->
              IF config.FilePath # NoPath
              THEN IF o.err # ""
                   THEN fail("failed to open log file")
                   ELSE [err |-> "", writers |-> <<StdoutWriter, config.FilePath>>,
                         files |-> o.files, open |-> Append(open, config.FilePath)]
              ELSE [err |-> "", writers |-> <<StdoutWriter>>, files |-> files, open |-> open]
         [] OTHER ->
              [err |-> "", writers |-> <<StdoutWriter>>, files |-> files, open |-> open]

\* A variant of setupOutput that requires the path for both as for file.
SetupOutputBothNeedsPath(config, files, open) ==
    LET o == OpenFile(files, config.FilePath)
        fail(e) == [err |-> e, writers |-> <<>>, files |-> files, open |-> open]
    IN CASE config.Output = ConsoleOutput ->
              [err |-> "", writers |-> <<StdoutWriter>>, files |-> files, open |-> open]
         [] config.Output = FileOutput ->
              IF config.FilePath = NoPath
              THEN fail("file path is required for file output")
              ELSE IF o.err # ""
              THEN fail("failed to open log file")
              ELSE [err |-> "", writers |-> <<config.FilePath>>, files |-> o.files,
                    open |-> Append(open, config.FilePath)]
         [] config.Output = BothOutput ->
              IF config.FilePath # NoPath
              THEN IF o.err # ""
                   THEN fail("failed to open log file")
                   ELSE [err |-> "", writers |-> <<StdoutWriter, config.FilePath>>,
                         files |-> o.files, open |-> Append(open, config.FilePath)]
              ELSE fail("file path is required for file output")
         [] OTHER -> fail("unsupported output type")

\* The result of setupOutput: the error (or ""), the writers handed to
\* SetOutput, the file system and the paths opened.
SetupOutput(config, files, open) ==
    LET o == OpenFile(files, config.FilePath)
        fail(e) == [err |-> e, writers |-> <<>>, files |-> files, open |-> open]
    IN CASE config.Output = ConsoleOutput ->
              [err |-> "", writers |-> <<StdoutWriter>>, files |-> files, open |-> open]
         [] config.Output = FileOutput ->
              IF config.FilePath = NoPath
              THEN fail("file path is required for file output")
              ELSE IF o.err # ""
              THEN fail("failed to open log file")
              ELSE [err |-> "", writers |-> <<config.FilePath>>, files |-> o.files,
                    open |-> Append(open, config.FilePath)]
         [] config.Output = BothOutput ->
              IF config.FilePath # NoPath
              THEN IF o.err # ""
                   THEN fail("failed to open log file")
                   ELSE [err |-> "", writers |-> <<StdoutWriter, config.FilePath>>,
                         files |-> o.files, open |-> Append(open, config.FilePath)]
              ELSE [err |-> "", writers |-> <<StdoutWriter>>, files |-> files, open |-> open]
         [] OTHER -> fail("unsupported output type")

\* The derivation of a handle New returns: the root of the k-th successful New.
RootChain(k) == [root |-> k, svc |-> FALSE, names |-> <<>>]

New(config) ==
    /\ proc = "running"
    /\ LET l1 == [LogrusNew EXCEPT !.level = config.Level]
           l2 == SetupFormatter(l1, config)
           o == SetupOutput(config, fs, fds)
       IN IF o.err # ""
          THEN /\ last' = [NoCall EXCEPT !.op = "New", !.cfg = config, !.err = o.err]
               /\ fs' = o.files
               /\ fds' = o.open
               /\ UNCHANGED <<sinks, handles, chain, built, lastSet>>
          ELSE /\ Len(handles) < MaxHandles
               /\ sinks' = Append(sinks, [l2 EXCEPT !.out = o.writers])
               /\ handles' = Append(handles, [logger |-> Len(sinks) + 1, serviceName |-> <<>>])
               /\ chain' = Append(chain, RootChain(Len(built) + 1))
               /\ built' = Append(built, config)
               /\ lastSet' = Append(lastSet, config.Level)
               /\ fs' = o.files
               /\ fds' = o.open
               /\ last' = [NoCall EXCEPT !.op = "New", !.cfg = config,
                                         !.res = Len(handles) + 1]
    /\ UNCHANGED <<stdout, proc>>

(* ------------------------------------------------------------------ *)
(* WithService, WithGroup                                              *)
(* ------------------------------------------------------------------ *)
\* A variant of WithService that binds the new handle to the first logger
\* built instead of the receiver's.
WithServiceOnFirst(l, serviceName) == [logger |-> 1, serviceName |-> serviceName]

WithServiceOf(l, serviceName) == [logger |-> l.logger, serviceName |-> serviceName]

\* A variant of WithGroup that joins with a dot whatever the receiver's name.
WithGroupAlwaysDotted(l, group) ==
    [logger |-> l.logger, serviceName |-> l.serviceName \o <<Dot>> \o group]

WithGroupOf(l, group) ==
    [logger |-> l.logger,
     serviceName |-> IF l.serviceName # <<>>
                     THEN l.serviceName \o <<Dot>> \o group
                     ELSE group]

Handles == 1..Len(handles)

WithService(h, serviceName) ==
    /\ proc = "running"
    /\ h \in Handles
    /\ Len(handles) < MaxHandles
    /\ handles' = Append(handles, WithServiceOf(handles[h], serviceName))
    /\ chain' = Append(chain, [root |-> chain[h].root, svc |-> TRUE, names |-> <<serviceName>>])
    /\ last' = [NoCall EXCEPT !.op = "WithService", !.recv = h, !.res = Len(handles) + 1,
                              !.name = serviceName]
    /\ UNCHANGED <<fs, fds, stdout, sinks, built, lastSet, proc>>

WithGroup(h, group) ==
    /\ proc = "running"
    /\ h \in Handles
    /\ Len(handles) < MaxHandles
    /\ handles' = Append(handles, WithGroupOf(handles[h], group))
    /\ chain' = Append(chain, [chain[h] EXCEPT !.names = Append(@, group)])
    /\ last' = [NoCall EXCEPT !.op = "WithGroup", !.recv = h, !.res = Len(handles) + 1,
                              !.name = group]
    /\ UNCHANGED <<fs, fds, stdout, sinks, built, lastSet, proc>>

(* ------------------------------------------------------------------ *)
(* withFields and the entry builders                                   *)
(* ------------------------------------------------------------------ *)
\* The entry withFields builds: the logrus logger and the keys of the base
\* field set (runtime.Caller(2) finds the frame of the application's call).
WithFieldsOf(l) == [logger |-> l.logger, data |-> {"service", "func", "file"}]

EntryWith(entry, keys) == [entry EXCEPT !.data = @ \cup keys]

Builder(op, h, keys) ==
    /\ proc = "running"
    /\ h \in Handles
    /\ last' = [NoCall EXCEPT !.op = op, !.recv = h,
                              !.entry = EntryWith(WithFieldsOf(handles[h]), keys)]
    /\ UNCHANGED <<fs, fds, stdout, sinks, handles, chain, built, lastSet, proc>>

WithField(h, key) == Builder("WithField", h, {key})

WithFields(h, fields) == Builder("WithFields", h, fields)

WithError(h) == Builder("WithError", h, {"error"})

(* ------------------------------------------------------------------ *)
(* The log calls                                                       *)
(* ------------------------------------------------------------------ *)
Methods ==
    {"Debug", "Debugf", "Info", "Infof", "Warn", "Warnf", "Error", "Errorf",
     "Fatal", "Fatalf", "Panic", "Panicf"}

MethodLevel(m) ==
    CASE m \in {"Debug", "Debugf"} -> DebugLevel
      [] m \in {"Info", "Infof"} -> InfoLevel
      [] m \in {"Warn", "Warnf"} -> WarnLevel
      [] m \in {"Error", "Errorf"} -> ErrorLevel
      [] m \in {"Fatal", "Fatalf"} -> FatalLevel
      [] OTHER -> PanicLevel

\* logrus: an entry of a level is written when the logger's level is at
\* least that level.
\* A variant of the level test that drops entries of the minimum level itself.
IsLevelEnabledStrict(logger, level) == logger.level > level

IsLevelEnabled(logger, level) == logger.level >= level

\* What the writers hold after line went through the logger's output, the
\* writers of a multi-writer in their order.
RECURSIVE WriteAll(_, _, _)
WriteAll(writers, line, w) ==
    IF writers = <<>> THEN w
    ELSE LET to == Head(writers)
             next == IF to = StdoutWriter
                     THEN [w EXCEPT !.stdout = Append(@, line)]
                     ELSE IF to \in OpenablePaths
                     THEN [w EXCEPT !.files[to].data = Append(@, line)]
                     ELSE w
         IN WriteAll(Tail(writers), line, next)

\* A variant in which Fatal returns to its caller.
SignalOfNoExit(level) == IF level = PanicLevel THEN "panic" ELSE "return"

\* What a call ends in: the process exits after Fatal, Panic panics.
SignalOf(level) ==
    IF level = FatalLevel THEN "exit"
    ELSE IF level = PanicLevel THEN "panic"
    ELSE "return"

\* The entry of a log call as the logger writes it, or nothing.
LogOutput(logger, level, msg, service, w) ==
    IF IsLevelEnabled(logger, level)
    THEN WriteAll(logger.out, Format(logger.formatter, level, msg, service), w)
    ELSE w

Log(h, method, msg, recovered) ==
    /\ proc = "running"
    /\ h \in Handles
    /\ LET l == handles[h]
           level == MethodLevel(method)
           w == LogOutput(sinks[l.logger], level, msg, l.serviceName,
                          [stdout |-> stdout, files |-> fs])
           signal == SignalOf(level)
       IN /\ stdout' = w.stdout
          /\ fs' = w.files
          /\ proc' = IF signal = "exit" THEN "exited"
                     ELSE IF signal = "panic" /\ ~recovered THEN "crashed"
                     ELSE "running"
          /\ last' = [NoCall EXCEPT !.op = method, !.recv = h, !.level = level, !.msg = msg,
                                    !.signal = signal]
    /\ UNCHANGED <<fds, sinks, handles, chain, built, lastSet>>

(* ------------------------------------------------------------------ *)
(* SetLevel, GetLevel                                                  *)
(* ------------------------------------------------------------------ *)
\* A variant of SetLevel that sets the level of every logger of the process.
SetLevelOfAll(loggers, l, level) == [k \in 1..Len(loggers) |-> [loggers[k] EXCEPT !.level = level]]

SetLevelOf(loggers, l, level) == [loggers EXCEPT ![l.logger].level = level]

GetLevelOf(loggers, l) == loggers[l.logger].level

SetLevel(h, level) ==
    /\ proc = "running"
    /\ h \in Handles
    /\ sinks' = SetLevelOf(sinks, handles[h], level)
    /\ lastSet' = [lastSet EXCEPT ![chain[h].root] = level]
    /\ last' = [NoCall EXCEPT !.op = "SetLevel", !.recv = h, !.level = level]
    /\ UNCHANGED <<fs, fds, stdout, handles, chain, built, proc>>

GetLevel(h) ==
    /\ proc = "running"
    /\ h \in Handles
    /\ last' = [NoCall EXCEPT !.op = "GetLevel", !.recv = h,
                              !.level = GetLevelOf(sinks, handles[h])]
    /\ UNCHANGED <<fs, fds, stdout, sinks, handles, chain, built, lastSet, proc>>

(* ------------------------------------------------------------------ *)
(* Specifications                                                      *)
(* ------------------------------------------------------------------ *)
\* Room for one more line in every writer (the file may hold OldLine too).
Room == Len(stdout) < MaxLines /\ Len(fs[GoodPath].data) <= MaxLines

Svc == <<"s", "v", "c">>
Sub == <<"s", "u", "b">>
Empty == <<>>

MsgChars == {"a", "<", Quote}
Msgs == StringsUpTo(MsgChars, MaxMsgLen)

\* Construction: every configuration, one message through the result.
NextBuild ==
    \/ \E config \in Config : sinks = <<>> /\ New(config)
    \/ \E h \in Handles : Room /\ Log(h, "Info", <<"a">>, TRUE)

SpecBuild == Init /\ [][NextBuild]_vars

\* Derivation: two sinks, handles derived under every name, the builders.
NamesConfig ==
    {c \in Config : /\ c.Format = "text"
                    /\ \/ c.Output = ConsoleOutput /\ c.Level = DebugLevel /\ c.FilePath = NoPath
                       \/ c.Output = BothOutput /\ c.Level = InfoLevel /\ c.FilePath = GoodPath}

NextNames ==
    \/ \E config \in NamesConfig : Len(sinks) < MaxSinks /\ New(config)
    \/ \E h \in Handles, n \in {Empty, Svc} : WithService(h, n)
    \/ \E h \in Handles, g \in {Empty, Sub} : WithGroup(h, g)
    \/ \E h \in Handles : WithField(h, "key")
    \/ \E h \in Handles : WithFields(h, {"key1", "key2"})
    \/ \E h \in Handles : WithError(h)
    \/ \E h \in Handles : Room /\ Log(h, "Info", <<"a">>, TRUE)

SpecNames == InitNoFile /\ [][NextNames]_vars

\* Levels: two sinks of every configured level, SetLevel and GetLevel
\* through root and derived handles.
LevelConfig ==
    {c \in Config : /\ c.Output = ConsoleOutput /\ c.FilePath = NoPath /\ c.Format = "text"
                    /\ c.Level \in {ErrorLevel, DebugLevel}}

SetLevels == {PanicLevel, WarnLevel, TraceLevel}

NextLevel ==
    \/ \E config \in LevelConfig : Len(sinks) < MaxSinks /\ New(config)
    \/ \E h \in Handles : WithService(h, Svc)
    \/ \E h \in Handles : WithGroup(h, Sub)
    \/ \E h \in Handles, level \in SetLevels : SetLevel(h, level)
    \/ \E h \in Handles : GetLevel(h)

SpecLevel == InitNoFile /\ [][NextLevel]_vars

\* Logging: every method below, at and above the minimum level, through
\* the root and the derived handles of one sink.
LogConfig ==
    {c \in Config : /\ c.Format = "text"
                    /\ c.Level = InfoLevel
                    /\ \/ c.Output = ConsoleOutput /\ c.FilePath = NoPath
                       \/ c.Output = BothOutput /\ c.FilePath = GoodPath}

LogSetLevels == {PanicLevel, ErrorLevel, TraceLevel}

NextLog ==
    \/ \E config \in LogConfig : sinks = <<>> /\ New(config)
    \/ \E h \in Handles : WithService(h, Svc)
    \/ \E h \in Handles, level \in LogSetLevels : SetLevel(h, level)
    \/ \E h \in Handles, m \in Methods, recovered \in BOOLEAN :
          Room /\ Log(h, m, <<"a">>, recovered)

SpecLog == InitNoFile /\ [][NextLog]_vars

\* File output: every message over MsgChars into a file that may exist.
FileConfig ==
    {c \in Config : /\ c.Output \in {FileOutput, BothOutput}
                    /\ c.FilePath = GoodPath
                    /\ c.Level = InfoLevel}

NextFile ==
    \/ \E config \in FileConfig : sinks = <<>> /\ New(config)
    \/ \E h \in Handles, msg \in Msgs : Room /\ Log(h, "Infof", msg, TRUE)
    \/ \E h \in Handles : Room /\ Log(h, "Debug", <<"a">>, TRUE)

SpecFile == Init /\ [][NextFile]_vars

(* ------------------------------------------------------------------ *)
(* Properties of construction (SpecBuild)                              *)
(* ------------------------------------------------------------------ *)
NewReturned == last.op = "New"
NewSucceeded == last.op = "New" /\ last.err = ""

\* The sink of the handle the last call returned.
ResultSink == sinks[handles[last.res].logger]

\* A configuration New must reject: file output without a path, or an
\* output outside console, file, both.
Rejected(config) ==
    \/ config.Output = FileOutput /\ config.FilePath = NoPath
    \/ config.Output \notin {ConsoleOutput, FileOutput, BothOutput}

\* C1: New fails for file output with an empty path and for an output
\* outside {console, file, both}, whatever the level and the format: it
\* returns an error and a nil Logger, and the step creates or opens no file
\* and adds no sink and no handle.
C1_RejectedConfigFails ==
    [][(last'.op = "New" /\ Rejected(last'.cfg))
         => /\ last'.err # ""
            /\ last'.res = NoHandle
            /\ fs' = fs
            /\ fds' = fds
            /\ sinks' = sinks
            /\ handles' = handles]_vars

C1_Witness ==
    /\ NewReturned
    /\ last.cfg.Output = FileOutput
    /\ last.cfg.FilePath = NoPath
    /\ last.cfg.Format = "json"
    /\ last.cfg.Level = TraceLevel
    /\ last.err # ""
    /\ last.res = NoHandle

\* The writers New must hand to the logger, by output and file path.
WritersFor(config) ==
    CASE config.Output = ConsoleOutput -> <<StdoutWriter>>
      [] config.Output = FileOutput -> <<config.FilePath>>
      [] config.Output = BothOutput /\ config.FilePath # NoPath ->
            <<StdoutWriter, config.FilePath>>
      [] OTHER -> <<StdoutWriter>>

OpensFile(config) ==
    \/ config.Output = FileOutput
    \/ config.Output = BothOutput /\ config.FilePath # NoPath

\* C6: on a successful New the writers are a function of output and file
\* path alone: console gives standard output, file the file, both with a
\* path standard output then the file; both without a path succeeds with
\* standard output only and opens no file.
C6_WritersByOutput ==
    [][last'.op = "New"
         => /\ last'.err = ""
                => /\ sinks'[handles'[last'.res].logger].out = WritersFor(last'.cfg)
                   /\ fds' = IF OpensFile(last'.cfg)
                             THEN Append(fds, last'.cfg.FilePath)
                             ELSE fds
            /\ (last'.cfg.Output = BothOutput /\ last'.cfg.FilePath = NoPath)
                => last'.err = "" /\ fds' = fds /\ fs' = fs]_vars

C6_Witness ==
    /\ NewSucceeded
    /\ last.cfg.Output = BothOutput
    /\ last.cfg.FilePath = NoPath
    /\ ResultSink.out = <<StdoutWriter>>
    /\ fds = <<>>

FormatterFor(output) ==
    IF output \in {ConsoleOutput, BothOutput} THEN TextFormatterFull ELSE JSONFormatter

\* C7: the formatter of every sink New returned is fixed by the output of
\* its configuration: the text formatter with full timestamps for console
\* and both, the JSON formatter for file, whatever the format field says.
C7_FormatterByOutput ==
    \A k \in 1..Len(sinks) : sinks[k].formatter = FormatterFor(built[k].Output)

C7_Witness ==
    /\ NewSucceeded
    /\ last.cfg.Output = FileOutput
    /\ last.cfg.Format = "text"
    /\ ResultSink.formatter = JSONFormatter

\* The last call was a log call that the logger's level let through.
Logged ==
    /\ last.op \in Methods
    /\ IsLevelEnabled(sinks[handles[last.recv].logger], last.level)

LoggedConfig == built[chain[last.recv].root]

\* The line a writer of the last call's sink received last.
LastLineOf(writer) ==
    IF writer = StdoutWriter THEN stdout[Len(stdout)]
    ELSE fs[writer].data[Len(fs[writer].data)]

LastLinesAre(line) ==
    \A i \in 1..Len(sinks[handles[last.recv].logger].out) :
        LastLineOf(sinks[handles[last.recv].logger].out[i]) = line

\* C8 as stated: with output file the format field selects the encoding of
\* the lines (json: JSON, text: text); console and both write text.
C8_FormatHonoredForFile ==
    Logged =>
        LastLinesAre(IF LoggedConfig.Output = FileOutput /\ LoggedConfig.Format = "json"
                     THEN JSONLine(last.level, last.msg, handles[last.recv].serviceName)
                     ELSE TextLine(last.level, last.msg, handles[last.recv].serviceName))

\* C8 amended: the format field selects nothing.  With output file every
\* line is JSON-encoded for format json and for format text alike; with
\* console and both every line is text-encoded.
C8_LinesByOutputOnly ==
    Logged =>
        LastLinesAre(IF LoggedConfig.Output = FileOutput
                     THEN JSONLine(last.level, last.msg, handles[last.recv].serviceName)
                     ELSE TextLine(last.level, last.msg, handles[last.recv].serviceName))

C8_Witness ==
    /\ Logged
    /\ LoggedConfig.Output = FileOutput
    /\ LoggedConfig.Format = "text"
    /\ LastLineOf(GoodPath) = JSONLine(InfoLevel, <<"a">>, <<>>)

(* ------------------------------------------------------------------ *)
(* Properties of the derived handles (SpecNames)                       *)
(* ------------------------------------------------------------------ *)
RECURSIVE JoinDots(_)
JoinDots(names) ==
    IF names = <<>> THEN <<>>
    ELSE IF Len(names) = 1 THEN names[1]
    ELSE names[1] \o <<Dot>> \o JoinDots(Tail(names))

\* The rule of one WithService or WithGroup call, read off the last call.
DeriveRule ==
    /\ last.op = "WithService" => handles[last.res].serviceName = last.name
    /\ last.op = "WithGroup" =>
          handles[last.res].serviceName =
              IF handles[last.recv].serviceName # <<>>
              THEN handles[last.recv].serviceName \o <<Dot>> \o last.name
              ELSE last.name

BuilderOps == {"WithService", "WithGroup", "WithField", "WithFields", "WithError"}

\* C10: a step of WithService, WithGroup, WithField, WithFields or
\* WithError leaves the receiver as it was, changes no sink (its level
\* included), writes no line to standard output or a file, and a handle
\* WithService or WithGroup returns has the logger of its receiver.
C10_BuildersChangeNothing ==
    [][last'.op \in BuilderOps
         => /\ handles'[last'.recv] = handles[last'.recv]
            /\ \A h \in Handles : handles'[h] = handles[h]
            /\ sinks' = sinks
            /\ stdout' = stdout
            /\ fs' = fs
            /\ last'.op \in {"WithService", "WithGroup"}
                  => handles'[last'.res].logger = handles[last'.recv].logger]_vars

C10_Witness ==
    /\ last.op = "WithService"
    /\ handles[last.recv].logger = 2
    /\ handles[last.res].logger = 2
    /\ handles[last.recv].serviceName # handles[last.res].serviceName
    /\ stdout # <<>>

(* ------------------------------------------------------------------ *)
(* Properties of the level (SpecLevel)                                 *)
(* ------------------------------------------------------------------ *)
\* C2: the level is one cell per sink.  Read through any handle, it is the
\* level of the latest SetLevel made through a handle derived from the same
\* New, or the level of that New's configuration if there was none; right
\* after New it is the configured level, and GetLevel returns it.
C2_LevelSharedBySink ==
    /\ \A h \in Handles : GetLevelOf(sinks, handles[h]) = lastSet[chain[h].root]
    /\ NewSucceeded => GetLevelOf(sinks, handles[last.res]) = last.cfg.Level
    /\ last.op = "GetLevel" => last.level = lastSet[chain[last.recv].root]

C2_Witness ==
    /\ last.op = "GetLevel"
    /\ Len(sinks) = 2
    /\ chain[last.recv].svc
    /\ chain[last.recv].root = 1
    /\ last.level = TraceLevel
    /\ built[1].Level = ErrorLevel
    /\ sinks[2].level = DebugLevel

(* ------------------------------------------------------------------ *)
(* Properties of the log calls (SpecLog)                               *)
(* ------------------------------------------------------------------ *)
\* Severity grows from trace to panic.
Severity(level) == TraceLevel - level

IsPrefix(s, t) == Len(s) <= Len(t) /\ \A i \in 1..Len(s) : s[i] = t[i]

\* The writer holds one line more than before, after the lines it held.
OneMoreLine(before, after) == Len(after) = Len(before) + 1 /\ IsPrefix(before, after)

InSeq(x, s) == \E i \in 1..Len(s) : s[i] = x

\* Every writer in out holds one line more, every other writer what it held.
OneLineEach(out) ==
    /\ IF InSeq(StdoutWriter, out) THEN OneMoreLine(stdout, stdout') ELSE stdout' = stdout
    /\ \A p \in OpenablePaths :
          IF InSeq(p, out) THEN OneMoreLine(fs[p].data, fs'[p].data) ELSE fs'[p] = fs[p]

NoLine == stdout' = stdout /\ fs' = fs

\* C4: a log call of a severity below the sink's minimum at the time of
\* the call writes no line; one at or above it writes exactly one line to
\* each writer of the sink.
C4_OneLineIffEnabled ==
    [][last'.op \in Methods
         => LET sink == sinks[handles[last'.recv].logger]
            IN IF Severity(last'.level) >= Severity(sink.level)
               THEN OneLineEach(sink.out)
               ELSE NoLine]_vars

C4_Witness ==
    /\ last.op = "Errorf"
    /\ chain[last.recv].svc
    /\ sinks[handles[last.recv].logger].level = ErrorLevel
    /\ built[1].Level = InfoLevel
    /\ Len(stdout) = 1
    /\ Len(fs[GoodPath].data) = 1

FatalOps == {"Fatal", "Fatalf"}
PanicOps == {"Panic", "Panicf"}

\* C9 as stated: Fatal exits and Panic panics, and whatever the minimum
\* level the entry's line is in every writer first; nothing is written
\* once the process has exited.
C9_FatalAndPanicAlwaysWrite ==
    [][/\ last'.op \in FatalOps
            => proc' = "exited" /\ OneLineEach(sinks[handles[last'.recv].logger].out)
       /\ last'.op \in PanicOps
            => last'.signal = "panic" /\ OneLineEach(sinks[handles[last'.recv].logger].out)
       /\ proc = "exited" => NoLine]_vars

\* C9 amended: Fatal exits and Panic panics whatever the minimum level.
\* Panic always writes its line first; Fatal writes its line first unless
\* the minimum level is panic, and then exits without writing.  Nothing is
\* written once the process has exited.
C9_FatalWritesIfEnabled ==
    [][/\ last'.op \in FatalOps
            => /\ proc' = "exited"
               /\ IF sinks[handles[last'.recv].logger].level = PanicLevel
                  THEN NoLine
                  ELSE OneLineEach(sinks[handles[last'.recv].logger].out)
       /\ last'.op \in PanicOps
            => last'.signal = "panic" /\ OneLineEach(sinks[handles[last'.recv].logger].out)
       /\ proc = "exited" => NoLine]_vars

C9_Witness ==
    /\ last.op = "Fatal"
    /\ proc = "exited"
    /\ sinks[handles[last.recv].logger].level = PanicLevel
    /\ stdout = <<>>

(* ------------------------------------------------------------------ *)
(* Properties of file output (SpecFile)                                *)
(* ------------------------------------------------------------------ *)
\* The message as the formatter writes it.
Encoded(formatter, msg) ==
    IF formatter.kind = "json" THEN JSONString(msg) ELSE TextValue(msg)

\* The formatter escapes no character of the message.
Verbatim(formatter, msg) ==
    \A i \in 1..Len(msg) :
        IF formatter.kind = "json" THEN JSONChar(msg[i]) = <<msg[i]>>
        ELSE GoQuoteChar(msg[i]) = <<msg[i]>>

\* The last step was an enabled log call through a sink that writes the file.
FileLogged ==
    /\ last'.op \in Methods
    /\ IsLevelEnabled(sinks[handles[last'.recv].logger], last'.level)
    /\ InSeq(GoodPath, sinks[handles[last'.recv].logger].out)

NewLine == fs'[GoodPath].data[Len(fs'[GoodPath].data)]

\* Every writer of the sink of the last call received the new line.
FannedOut ==
    /\ OneLineEach(sinks[handles[last'.recv].logger].out)
    /\ InSeq(StdoutWriter, sinks[handles[last'.recv].logger].out)
          => stdout'[Len(stdout')] = NewLine

\* No step removes or changes a line the file holds.
Appends == \A p \in OpenablePaths : IsPrefix(fs[p].data, fs'[p].data)

\* C5 as stated: an enabled log call through a sink with a file leaves the
\* exact message text in the file, with both the same line in standard
\* output and the file, and what the file held stays.
C5_FileHoldsExactMessage ==
    [][/\ Appends
       /\ FileLogged => FannedOut /\ Contains(NewLine, last'.msg)]_vars

\* C5 amended: the file holds the message as the sink's formatter encodes
\* it (a JSON string for file, Go-quoted text for both), which is the exact
\* text when the formatter escapes none of its characters; with both the
\* same line is in standard output and the file, and what the file held
\* stays.
C5_FileHoldsEncodedMessage ==
    [][/\ Appends
       /\ FileLogged
            => /\ FannedOut
               /\ Contains(NewLine, Encoded(sinks[handles[last'.recv].logger].formatter,
                                            last'.msg))
               /\ Verbatim(sinks[handles[last'.recv].logger].formatter, last'.msg)
                     => Contains(NewLine, last'.msg)]_vars

C5_Witness ==
    /\ Logged
    /\ LoggedConfig.Output = BothOutput
    /\ last.msg = <<"a", Quote>>
    /\ Len(fs[GoodPath].data) = 2
    /\ fs[GoodPath].data[1] = OldLine
    /\ stdout = <<fs[GoodPath].data[2]>>
    /\ ~Contains(fs[GoodPath].data[2], last.msg)

====
